---- MODULE Spec2Model ----
(***************************************************************************)
(* Model of kaldi/matrix/__init__.py: the Vector and Matrix wrapper        *)
(* classes, their ownership flag (own_data), the views made by new, range  *)
(* and __getitem__, and the owner-only structural operations.              *)
(*                                                                         *)
(* Memory is a heap of blocks.  A handle (a Vector or Matrix object) names *)
(* a block, an offset into it, a shape and a row stride.  The native       *)
(* Kaldi operations (Resize, Swap, Transpose, RemoveElement, RemoveRow,    *)
(* CopyFromVec, CopyFromMat, the SubVector/SubMatrix constructors) and the *)
(* numpy operations the wrappers delegate to are modelled by what they do  *)
(* to that heap.                                                           *)
(***************************************************************************)
EXTENDS Integers, Sequences, FiniteSets, TLC

\* Bounds of the model.
MaxLen == 3
MaxRows == 2
MaxCols == 2
MaxVal == 1
MaxSteps == 3

\* Number of floats in the 16 bytes Kaldi aligns a matrix row to.
StrideAlign == 4

\* Largest integer below which every integer is a float32 (2^24).
Float32Exact == 16777216

VARIABLES handles, heap, last, args, steps

vars == <<handles, heap, last, args, steps>>

\* The float values an element may hold, and the marker of a padding cell
\* (a cell of a block that lies in no array's extent).
Vals == 0..MaxVal
Pad == -1

----------------------------------------------------------------------------
\* Python argument values: None, an int, a non-integer number.
PyNone == [t |-> "none", v |-> 0]
PyInt(n) == [t |-> "int", v |-> n]
PyFloat(n) == [t |-> "float", v |-> n]
IsInt(a) == a.t = "int"
IsNone(a) == a.t = "none"

\* numpy's conversion of a Python number to dtype float32: integers above
\* 2^24 round to the nearest representable value (here: the even neighbour).
ToFloat32(x) ==
  IF x > Float32Exact /\ x % 2 = 1
  THEN (IF x % 4 = 1 THEN x - 1 ELSE x + 1)
  ELSE x

----------------------------------------------------------------------------
\* The heap.  Block 0 is the NULL data pointer of an empty vector or matrix.
Block(data) == [data |-> data, live |-> TRUE]

Cell(hp, st, a) == hp[st].data[a + 1]

\* An allocation of Len(data) floats: a fresh block, or a released block of
\* the same size handed out again by the allocator.
Alloc(hp, data) ==
  IF Len(data) = 0
  THEN {[heap |-> hp, st |-> 0]}
  ELSE {[heap |-> Append(hp, Block(data)), st |-> Len(hp) + 1]}
       \cup {[heap |-> [hp EXCEPT ![k] = Block(data)], st |-> k] :
               k \in {k \in 1..Len(hp) :
                        ~hp[k].live /\ Len(hp[k].data) = Len(data)}}

Free(hp, st) == IF st = 0 THEN hp ELSE [hp EXCEPT ![st].live = FALSE]

\* The contents memory may be given by an allocation: zeros for SET_ZERO,
\* anything for UNDEFINED (uninitialised memory).
Fill(n, resize_type) ==
  IF resize_type = "SET_ZERO" THEN {[k \in 1..n |-> 0]} ELSE [1..n -> Vals]

----------------------------------------------------------------------------
\* Handles.  via: how the handle was made.  par, pm: the handle this one was
\* taken from and the map from its coordinates to the parent's, kept while
\* the parent's storage and shape are what they were when it was taken.
NoPm == [r0 |-> 0, ri |-> 0, rj |-> 0, c0 |-> 0, ci |-> 0, cj |-> 0]

VecHandle(own, st, off, dim, via, par, pm) ==
  [kind |-> "Vector", own_data |-> own, st |-> st, off |-> off,
   nr |-> 1, nc |-> dim, stride |-> 0, via |-> via, par |-> par, pm |-> pm]

MatHandle(own, st, off, rows, cols, stride, via, par, pm) ==
  [kind |-> "Matrix", own_data |-> own, st |-> st, off |-> off,
   nr |-> rows, nc |-> cols, stride |-> stride, via |-> via, par |-> par,
   pm |-> pm]

Addr(h, i, j) == h.off + i * h.stride + j

Shape(h) == IF h.kind = "Vector" THEN <<h.nc>> ELSE <<h.nr, h.nc>>

Contents(hp, h) ==
  [i \in 0..(h.nr - 1) |-> [j \in 0..(h.nc - 1) |-> Cell(hp, h.st, Addr(h, i, j))]]

\* The views of handle k lose their link to it when k's storage or shape
\* changes.
Unlink(hs, k) ==
  [i \in DOMAIN hs |->
     IF hs[i].par = k THEN [hs[i] EXCEPT !.par = 0, !.pm = NoPm] ELSE hs[i]]

\* Outcomes of a call: the error raised ("ok" when none), the handles and the
\* heap after it, the kind of value returned (rk) and the value (res: the
\* index of a returned handle, or a float), a detail of the error, and the
\* native operation the call invoked.
Ok(hs, hp, rk, res, native) ==
  [err |-> "ok", hs |-> hs, hp |-> hp, rk |-> rk, res |-> res, what |-> "",
   native |-> native]

Raise(hs, hp, err, what) ==
  [err |-> err, hs |-> hs, hp |-> hp, rk |-> "", res |-> 0, what |-> what,
   native |-> ""]

----------------------------------------------------------------------------
\* Memory access.  A read of a released block may give anything; a write to
\* one lands in the stale block or is lost.
Load(hp, st, a) == IF hp[st].live THEN {Cell(hp, st, a)} ELSE Vals

Coords(h) == (0..(h.nr - 1)) \X (0..(h.nc - 1))

\* The possible values of the elements of h, as functions of (i, j).
Reads(hp, h) ==
  IF Coords(h) = {} THEN {[p \in {} |-> 0]}
  ELSE IF hp[h.st].live
       THEN {[p \in Coords(h) |-> Cell(hp, h.st, Addr(h, p[1], p[2]))]}
       ELSE [Coords(h) -> Vals]

\* Block st with the cells of upd (a function of addresses) overwritten.
Written(hp, st, upd) ==
  [hp EXCEPT ![st].data =
     [a \in DOMAIN @ |-> IF (a - 1) \in DOMAIN upd THEN upd[a - 1] ELSE @[a]]]

Store(hp, st, upd) ==
  IF DOMAIN upd = {} THEN {hp}
  ELSE IF hp[st].live THEN {Written(hp, st, upd)}
       ELSE {Written(hp, st, upd), hp}

\* The cells of h set from f, a function of (i, j).
StoreAll(hp, h, f) ==
  Store(hp, h.st,
        [a \in {Addr(h, p[1], p[2]) : p \in DOMAIN f} |->
           f[CHOOSE p \in DOMAIN f : Addr(h, p[1], p[2]) = a]])

\* The links to k are dropped unless k is what it was.
Relink(hs, k, old) ==
  IF hs[k].st = old.st /\ hs[k].off = old.off /\ hs[k].nr = old.nr
     /\ hs[k].nc = old.nc /\ hs[k].stride = old.stride
  THEN hs ELSE Unlink(hs, k)

----------------------------------------------------------------------------
\* kaldi::Vector<float>::Resize for resize types SET_ZERO and UNDEFINED: a
\* vector that has data and already has the length keeps its block; any
\* other releases the block and takes a new one.
VectorResize(hp, h, n, resize_type) ==
  IF h.st # 0 /\ n = h.nc
  THEN {[heap |-> q, h |-> h] :
          q \in IF resize_type = "SET_ZERO"
                THEN StoreAll(hp, h, [p \in {0} \X (0..(n - 1)) |-> 0])
                ELSE {hp}}
  ELSE {[heap |-> a.heap, h |-> [h EXCEPT !.st = a.st, !.off = 0, !.nc = n]] :
          a \in UNION {Alloc(Free(hp, h.st), d) : d \in Fill(n, resize_type)}}

\* kaldi::Vector<float>::RemoveElement: the elements after i move down one
\* place and the length drops by one; the block stays.
VectorRemoveElement(hp, h, i) ==
  {[heap |-> q, h |-> [h EXCEPT !.nc = h.nc - 1]] :
     q \in UNION {StoreAll(hp, h, [p \in {0} \X (i..(h.nc - 2)) |->
                                     f[<<0, p[2] + 1>>]]) :
                    f \in Reads(hp, h)}}

\* kaldi::Vector<float>::Swap and kaldi::Matrix<float>::Swap: the two
\* objects exchange data pointer, shape and stride.
NativeSwap(hs, a, b) ==
  LET x == hs[a]
      y == hs[b]
      take(p, q) == [p EXCEPT !.st = q.st, !.off = q.off, !.nr = q.nr,
                               !.nc = q.nc, !.stride = q.stride]
  IN [hs EXCEPT ![a] = take(x, y), ![b] = take(y, x)]

\* CopyFromVec / CopyFromMat: the elements of src written over those of dst,
\* which must have the same shape.
NativeCopy(hp, dst, src) ==
  UNION {StoreAll(hp, dst, f) : f \in Reads(hp, src)}

----------------------------------------------------------------------------
\* numpy arrays: a block, an offset, the number of dimensions, the shape and
\* the strides, in elements.  A 1-D array has nr = 1 and its length in nc.
NdArray(st, off, nd, nr, nc, sr, sc) ==
  [st |-> st, off |-> off, nd |-> nd, nr |-> nr, nc |-> nc, sr |-> sr, sc |-> sc]

\* ndarray.flags.c_contiguous: a dimension of length 1 may have any stride,
\* and an array with no element is contiguous.
IsCContiguous(a) ==
  \/ a.nr = 0
  \/ a.nc = 0
  \/ /\ a.nc = 1 \/ a.sc = 1
     /\ a.nr = 1 \/ a.sr = a.nc

\* The elements of array a as a handle-like record, to read them.
ArrCell(hp, a, i, j) == Cell(hp, a.st, a.off + i * a.sr + j * a.sc)

\* numpy.array(obj, dtype=numpy.float32, copy=True, order='C'): always a copy.
AsCopy(hp, a) ==
  {[heap |-> x.heap, a |-> NdArray(x.st, 0, a.nd, a.nr, a.nc, a.nc, 1)] :
     x \in Alloc(hp, [k \in 1..(a.nr * a.nc) |->
                        ArrCell(hp, a, (k - 1) \div a.nc, (k - 1) % a.nc)])}

\* numpy.array(obj, dtype=numpy.float32, copy=False, order='C') of a float32
\* array: the array itself when it is C-contiguous, a C-ordered copy in
\* memory of its own when not.
AsContiguous(hp, a) ==
  IF IsCContiguous(a)
  THEN {[heap |-> hp, a |-> a]}
  ELSE {[heap |-> x.heap, a |-> NdArray(x.st, 0, a.nd, a.nr, a.nc, a.nc, 1)] :
          x \in Alloc(hp, [k \in 1..(a.nr * a.nc) |->
                             ArrCell(hp, a, (k - 1) \div a.nc, (k - 1) % a.nc)])}

\* numpy.array(obj, dtype=numpy.float32, copy=False, order='C') of a Python
\* sequence: a new array of the converted numbers.
FromSequence(hp, seq) ==
  {[heap |-> x.heap, a |-> NdArray(x.st, 0, seq.nd, seq.nr, seq.nc, seq.nc, 1)] :
     x \in Alloc(hp, [k \in 1..Len(seq.vals) |-> ToFloat32(seq.vals[k])])}

\* Sources of Vector.new and Matrix.new: a Kaldi vector or matrix (a handle),
\* a numpy array (with the handle it was sliced from), a Python sequence.
SrcHandle(k) == [t |-> "handle", k |-> k]
SrcArray(a, par, pm, via) == [t |-> "ndarray", a |-> a, par |-> par, pm |-> pm, via |-> via]
SrcSequence(nd, nr, nc, vals) ==
  [t |-> "sequence", nd |-> nd, nr |-> nr, nc |-> nc, vals |-> vals]

\* The coordinate map of a view that starts at (rs, cs) of something whose
\* own map is pm.
Compose(pm, rs, cs) ==
  [pm EXCEPT !.r0 = pm.r0 + pm.ri * rs + pm.rj * cs,
             !.c0 = pm.c0 + pm.ci * rs + pm.cj * cs]

IdPm == [r0 |-> 0, ri |-> 1, rj |-> 0, c0 |-> 0, ci |-> 0, cj |-> 1]

\* vector_to_numpy and matrix_to_numpy: an array over the handle's memory.
numpy(h) ==
  IF h.kind = "Vector"
  THEN NdArray(h.st, h.off, 1, 1, h.nc, 0, 1)
  ELSE NdArray(h.st, h.off, 2, h.nr, h.nc, h.stride, 1)

----------------------------------------------------------------------------
\* Index items: an integer or a slice(start, stop, step) whose parts are
\* None or integers; OtherIx stands for an index of any other type, and
\* NewAxisIx is None (numpy.newaxis) used as an index.
NewAxisIx == [t |-> "newaxis", v |-> 0, start |-> PyNone, stop |-> PyNone, step |-> PyNone]
IntIx(i) == [t |-> "int", v |-> i, start |-> PyNone, stop |-> PyNone, step |-> PyNone]
SliceIx(a, b, c) == [t |-> "slice", v |-> 0, start |-> a, stop |-> b, step |-> c]
OtherIx == [t |-> "other", v |-> 0, start |-> PyNone, stop |-> PyNone, step |-> PyNone]

\* slice.indices(n): the first index, the step and the number of indices a
\* slice selects from a sequence of length n.
SliceIndices(sl, n) ==
  LET step == IF IsNone(sl.step) THEN 1 ELSE sl.step.v
      lo == IF step < 0 THEN -1 ELSE 0
      hi == IF step < 0 THEN n - 1 ELSE n
      clip(x) == IF x.v < 0
                 THEN (IF x.v + n < 0 THEN lo ELSE x.v + n)
                 ELSE (IF x.v >= n THEN hi ELSE x.v)
      start == IF IsNone(sl.start) THEN (IF step < 0 THEN hi ELSE lo) ELSE clip(sl.start)
      stop == IF IsNone(sl.stop) THEN (IF step < 0 THEN lo ELSE hi) ELSE clip(sl.stop)
      count == IF step < 0
               THEN (IF stop < start THEN ((start - stop - 1) \div (-step)) + 1 ELSE 0)
               ELSE (IF start < stop THEN ((stop - start - 1) \div step) + 1 ELSE 0)
  IN [start |-> start, step |-> step, count |-> count]

\* What one index item selects along an axis of length n.
Axis(item, n) ==
  IF item.t = "int"
  THEN [int |-> TRUE, ok |-> (-n <= item.v /\ item.v < n),
        start |-> IF item.v < 0 THEN item.v + n ELSE item.v,
        step |-> 0, count |-> 1]
  ELSE LET s == SliceIndices(item, n)
       IN [int |-> FALSE, ok |-> TRUE, start |-> s.start, step |-> s.step,
           count |-> s.count]

\* ndarray.__getitem__ of a 1-D array with one item, and of a 2-D array with
\* a pair of items: the selected array (nd = 0: a scalar) over the same
\* memory, with the map from its coordinates to those of the indexed array.
NdGetItem1(a, item) ==
  LET x == Axis(item, a.nc)
  IN [ok |-> x.ok,
      a |-> NdArray(a.st, a.off + x.start * a.sc, IF x.int THEN 0 ELSE 1,
                    1, x.count, 0, a.sc * x.step),
      pm |-> [r0 |-> 0, ri |-> 0, rj |-> 0, c0 |-> x.start, ci |-> 0, cj |-> x.step]]

NdGetItem2(a, r, c) ==
  LET x == Axis(r, a.nr)
      y == Axis(c, a.nc)
      off == a.off + x.start * a.sr + y.start * a.sc
  IN [ok |-> x.ok /\ y.ok,
      a |-> IF x.int /\ y.int THEN NdArray(a.st, off, 0, 1, 1, 0, 0)
            ELSE IF x.int THEN NdArray(a.st, off, 1, 1, y.count, 0, a.sc * y.step)
            ELSE IF y.int THEN NdArray(a.st, off, 1, 1, x.count, 0, a.sr * x.step)
            ELSE NdArray(a.st, off, 2, x.count, y.count, a.sr * x.step, a.sc * y.step),
      pm |-> IF ~x.int /\ y.int
             THEN [r0 |-> x.start, ri |-> 0, rj |-> x.step, c0 |-> y.start, ci |-> 0, cj |-> 0]
             ELSE [r0 |-> x.start, ri |-> x.step, rj |-> 0, c0 |-> y.start, ci |-> 0, cj |-> y.step]]

\* ndarray.__getitem__ of a 2-D array with a tuple of items (an index that
\* is no tuple is a tuple of one item).  Integers and slices take the axes
\* in order, the axes left over are taken whole, and each None adds an axis
\* of length 1 at its place.  An item of another type, or more than two
\* integers and slices, is an IndexError.  Of a result of three or more
\* dimensions only the number of dimensions is kept.
NdGetItem(a, index) ==
  LET basic == {i \in DOMAIN index : index[i].t \in {"int", "slice"}}
      added == Cardinality({i \in DOMAIN index : index[i].t = "newaxis"})
      whole == SliceIx(PyNone, PyNone, PyNone)
      first == CHOOSE i \in basic : \A j \in basic : i <= j
      second == CHOOSE i \in basic : \A j \in basic : j <= i
      after == \E i, j \in DOMAIN index :
                 i < j /\ index[i].t = "slice" /\ index[j].t = "newaxis"
      Shaped(g) ==
        IF added = 0 THEN g
        ELSE IF g.a.nd + added > 2
        THEN [ok |-> g.ok, a |-> NdArray(g.a.st, g.a.off, g.a.nd + added, 0, 0, 0, 0),
              pm |-> NoPm]
        ELSE IF g.a.nd = 0
        THEN [ok |-> g.ok, a |-> NdArray(g.a.st, g.a.off, added, 1, 1, 0, 0),
              pm |-> g.pm]
        ELSE IF after
        THEN [ok |-> g.ok, a |-> NdArray(g.a.st, g.a.off, 2, g.a.nc, 1, g.a.sc, 0),
              pm |-> [r0 |-> g.pm.r0, ri |-> g.pm.rj, rj |-> g.pm.ri,
                      c0 |-> g.pm.c0, ci |-> g.pm.cj, cj |-> g.pm.ci]]
        ELSE [ok |-> g.ok, a |-> NdArray(g.a.st, g.a.off, 2, 1, g.a.nc, 0, g.a.sc),
              pm |-> g.pm]
  IN IF (\E i \in DOMAIN index : index[i].t = "other") \/ Cardinality(basic) > 2
     THEN [ok |-> FALSE, a |-> a, pm |-> NoPm]
     ELSE CHOOSE r \in
            {Shaped(g) :
               g \in {NdGetItem2(a,
                        IF Cardinality(basic) >= 1 THEN index[first] ELSE whole,
                        IF Cardinality(basic) >= 2 THEN index[second] ELSE whole)}} :
            TRUE

----------------------------------------------------------------------------
\* The bounds checks of Vector.new and Matrix.new: 0 <= start <= len(obj) and
\* 0 <= length <= len(obj) - start, per axis.
StartInRange_Strict(start, obj_len) == 0 <= start /\ start < obj_len

StartInRange(start, obj_len) == 0 <= start /\ start <= obj_len

LengthInRange(length, max_len) == 0 <= length /\ length <= max_len

\* The first element of SubVector(obj, start, length) in obj's memory.
SubVectorOffset_NoStart(a, start) == a.off

SubVectorOffset(a, start) == a.off + start

\* instance.own_data of a vector or matrix made by new.
NewOwnData == FALSE

\* numpy.array(obj, ...) inside new: the array of a handle is the handle's
\* memory (a Kaldi object is used as it is), an array is made contiguous, a
\* sequence is converted.
Converted(hs, hp, obj) ==
  IF obj.t = "handle" THEN {[heap |-> hp, a |-> numpy(hs[obj.k])]}
  ELSE IF obj.t = "ndarray" THEN AsContiguous(hp, obj.a)
  ELSE FromSequence(hp, obj)

\* Vector.new(obj, start, length).  obj: a Vector handle, an array or a
\* sequence.  SubVector.__init__ makes the new vector over obj's memory.
Vector_new(hs, hp, obj, start, length) ==
  UNION {
    IF obj.t # "handle" /\ c.a.nd # 1
    THEN {Raise(hs, hp, "ValueError", "ndim")}
    ELSE
      LET obj_len == c.a.nc
      IN IF ~StartInRange(start.v, obj_len)
         THEN {Raise(hs, hp, "IndexError", "start")}
         ELSE
           LET max_len == obj_len - start.v
               len == IF IsNone(length) THEN max_len ELSE length.v
           IN IF ~LengthInRange(len, max_len)
              THEN {Raise(hs, hp, "IndexError", "length")}
              ELSE
                LET instance ==
                      IF obj.t = "handle"
                      THEN VecHandle(NewOwnData, c.a.st, SubVectorOffset(c.a, start.v), len,
                                     "new", obj.k, Compose(IdPm, 0, start.v))
                      ELSE IF obj.t = "ndarray"
                      THEN VecHandle(NewOwnData, c.a.st, SubVectorOffset(c.a, start.v), len,
                                     obj.via, obj.par, Compose(obj.pm, 0, start.v))
                      ELSE VecHandle(NewOwnData, c.a.st, SubVectorOffset(c.a, start.v), len,
                                     "new", 0, NoPm)
                IN {Ok(Append(hs, instance), c.heap, "Vector", Len(hs) + 1,
                       "SubVector")}
    : c \in Converted(hs, hp, obj)}

\* Vector.resize_ without the test of own_data.
Vector_resize_Ungated(hs, hp, self, length, resize_type) ==
  {Ok(Relink([hs EXCEPT ![self] = r.h], self, hs[self]), r.heap, "None", 0,
      "Resize") :
     r \in VectorResize(hp, hs[self], length, resize_type)}

\* Vector.resize_(length, resize_type).
Vector_resize_(hs, hp, self, length, resize_type) ==
  IF hs[self].own_data
  THEN {Ok(Relink([hs EXCEPT ![self] = r.h], self, hs[self]), r.heap, "None", 0,
           "Resize") :
          r \in VectorResize(hp, hs[self], length, resize_type)}
  ELSE {Raise(hs, hp, "ValueError", "own_data")}

\* Vector.__init__(length): an owning vector; Vector() is empty.
Vector_init(hs, hp, length) ==
  LET self == Len(hs) + 1
      hs1 == Append(hs, VecHandle(TRUE, 0, 0, 0, "init", 0, NoPm))
  IN IF ~IsNone(length)
     THEN IF IsInt(length) /\ length.v >= 0
          THEN {[o EXCEPT !.rk = "Vector", !.res = self] :
                  o \in Vector_resize_(hs1, hp, self, length.v, "UNDEFINED")}
          ELSE {Raise(hs, hp, "ValueError", "length")}
     ELSE {Ok(hs1, hp, "Vector", self, "")}

\* Vector.clone(): a new owning vector with a copy of the elements.
Vector_clone(hs, hp, self) ==
  UNION {IF o.err # "ok" THEN {o}
         ELSE {Ok([o.hs EXCEPT ![o.res].via = "clone"], q, "Vector", o.res,
                  "CopyFromVec") :
                 q \in NativeCopy(o.hp, o.hs[o.res], o.hs[self])}
         : o \in Vector_init(hs, hp, PyInt(hs[self].nc))}

\* Vector.range(start, length).
Vector_range(hs, hp, self, start, length) ==
  Vector_new(hs, hp, SrcHandle(self), start, length)

\* Vector.__getitem__(index): the native element read for an integer, a
\* vector made by Vector.new from the sliced numpy array for a slice.
Vector_getitem(hs, hp, self, index) ==
  IF index.t = "int"
  THEN IF 0 <= index.v /\ index.v < hs[self].nc
       THEN {Ok(hs, hp, "float", v, "getitem") :
               v \in Load(hp, hs[self].st, Addr(hs[self], 0, index.v))}
       ELSE {Raise(hs, hp, "IndexError", "index")}
  ELSE IF index.t = "slice"
  THEN LET g == NdGetItem1(numpy(hs[self]), index)
       IN Vector_new(hs, hp, SrcArray(g.a, self, g.pm, "getitem"), PyInt(0), PyNone)
  ELSE {Raise(hs, hp, "TypeError", "index")}

\* The addresses ndarray.__setitem__(index, value) writes, for a scalar value.
SetCells1(a, index) ==
  LET x == Axis(index, a.nc)
  IN {a.off + (x.start + k * x.step) * a.sc : k \in 0..(x.count - 1)}

SetCells2(a, r, c) ==
  LET x == Axis(r, a.nr)
      y == Axis(c, a.nc)
  IN {a.off + (x.start + k * x.step) * a.sr + (y.start + l * y.step) * a.sc :
        k \in 0..(x.count - 1), l \in 0..(y.count - 1)}

\* Vector.__setitem__(index, value) for a scalar value: numpy writes it to
\* the selected elements of the vector's memory.
Vector_setitem(hs, hp, self, index, value) ==
  IF ~Axis(index, hs[self].nc).ok
  THEN {Raise(hs, hp, "IndexError", "index")}
  ELSE {Ok(hs, q, "None", 0, "setitem") :
          q \in Store(hp, hs[self].st,
                      [a \in SetCells1(numpy(hs[self]), index) |-> ToFloat32(value)])}

\* Vector.__delitem__ without the test of own_data.
Vector_delitem_Ungated(hs, hp, self, index) ==
  IF 0 <= index /\ index < hs[self].nc
  THEN {Ok(Relink([hs EXCEPT ![self] = r.h], self, hs[self]), r.heap,
           "None", 0, "RemoveElement") :
          r \in VectorRemoveElement(hp, hs[self], index)}
  ELSE {Raise(hs, hp, "IndexError", "index")}

\* Vector.__delitem__(index).
Vector_delitem(hs, hp, self, index) ==
  IF hs[self].own_data
  THEN IF 0 <= index /\ index < hs[self].nc
       THEN {Ok(Relink([hs EXCEPT ![self] = r.h], self, hs[self]), r.heap,
                "None", 0, "RemoveElement") :
               r \in VectorRemoveElement(hp, hs[self], index)}
       ELSE {Raise(hs, hp, "IndexError", "index")}
  ELSE {Raise(hs, hp, "ValueError", "own_data")}

\* swap_ that tests own_data of self alone.
swap_SelfOnly(hs, hp, self, other) ==
  IF hs[self].own_data
  THEN LET hs1 == NativeSwap(hs, self, other)
       IN {Ok(Relink(Relink(hs1, self, hs[self]), other, hs[other]), hp,
              "None", 0, "Swap")}
  ELSE {Raise(hs, hp, "ValueError", "own_data")}

\* Vector.swap_(other) and Matrix.swap_(other).
swap_(hs, hp, self, other) ==
  IF hs[self].own_data /\ hs[other].own_data
  THEN LET hs1 == NativeSwap(hs, self, other)
       IN {Ok(Relink(Relink(hs1, self, hs[self]), other, hs[other]), hp,
              "None", 0, "Swap")}
  ELSE {Raise(hs, hp, "ValueError", "own_data")}

\* Vector.copy_(src) and Matrix.copy_(src): CopyFromVec / CopyFromMat, which
\* refuse a source of another shape.
copy_(hs, hp, self, src) ==
  IF Shape(hs[self]) = Shape(hs[src])
  THEN {Ok(hs, q, hs[self].kind, self, "CopyFrom") :
          q \in NativeCopy(hp, hs[self], hs[src])}
  ELSE {Raise(hs, hp, "ShapeMismatchError", "src")}

----------------------------------------------------------------------------
\* The row stride kaldi::Matrix<float>::Init gives a matrix: rounded up to
\* the alignment for the default stride type, the number of columns for
\* STRIDE_EQUAL_NUM_COLS.
StrideFor(cols, stride_type) ==
  IF stride_type = "STRIDE_EQUAL_NUM_COLS" THEN cols
  ELSE cols + ((StrideAlign - (cols % StrideAlign)) % StrideAlign)

\* The block of a rows x cols matrix with row stride `stride` and elements g.
MatBlock(rows, cols, stride, g) ==
  [a \in 1..(rows * stride) |->
     IF (a - 1) % stride < cols
     THEN g[<<(a - 1) \div stride, (a - 1) % stride>>]
     ELSE Pad]

MatFill(rows, cols, resize_type) ==
  IF resize_type = "SET_ZERO"
  THEN {[p \in (0..(rows - 1)) \X (0..(cols - 1)) |-> 0]}
  ELSE [(0..(rows - 1)) \X (0..(cols - 1)) -> Vals]

\* kaldi::Matrix<float>::Resize for resize types SET_ZERO and UNDEFINED: a
\* matrix that has data and already has the shape keeps its block and its
\* stride; any other releases the block and takes a new one.
MatrixResize(hp, h, rows, cols, resize_type, stride_type) ==
  IF h.st # 0 /\ rows = h.nr /\ cols = h.nc
  THEN {[heap |-> q, h |-> h] :
          q \in IF resize_type = "SET_ZERO"
                THEN StoreAll(hp, h, [p \in Coords(h) |-> 0])
                ELSE {hp}}
  ELSE LET stride == IF rows * cols = 0 THEN 0 ELSE StrideFor(cols, stride_type)
       IN {[heap |-> a.heap,
            h |-> [h EXCEPT !.st = a.st, !.off = 0, !.nr = rows, !.nc = cols,
                            !.stride = stride]] :
             a \in UNION {Alloc(Free(hp, h.st), MatBlock(rows, cols, stride, g)) :
                            g \in MatFill(rows, cols, resize_type)}}

\* kaldi::Matrix<float>::RemoveRow: the rows after i move up one place and
\* the number of rows drops by one; the block and the number of columns stay.
MatrixRemoveRow(hp, h, i) ==
  {[heap |-> q, h |-> [h EXCEPT !.nr = h.nr - 1]] :
     q \in UNION {StoreAll(hp, h, [p \in (i..(h.nr - 2)) \X (0..(h.nc - 1)) |->
                                     f[<<p[1] + 1, p[2]>>]]) :
                    f \in Reads(hp, h)}}

\* kaldi::Matrix<float>::Transpose: in place for a square matrix; a matrix
\* that is not square is resized to the transposed shape (a new block with
\* the default stride) and filled from a transposed copy.
MatrixTranspose(hp, h) ==
  IF h.nr = h.nc
  THEN {[heap |-> q, h |-> h] :
          q \in UNION {StoreAll(hp, h, [p \in Coords(h) |-> f[<<p[2], p[1]>>]]) :
                         f \in Reads(hp, h)}}
  ELSE LET stride == StrideFor(h.nr, "DEFAULT")
       IN {[heap |-> a.heap,
            h |-> [h EXCEPT !.st = a.st, !.off = 0, !.nr = h.nc, !.nc = h.nr,
                            !.stride = stride]] :
             a \in UNION {Alloc(Free(hp, h.st),
                                MatBlock(h.nc, h.nr, stride,
                                         [p \in (0..(h.nc - 1)) \X (0..(h.nr - 1)) |->
                                            f[<<p[2], p[1]>>]])) :
                            f \in Reads(hp, h)}}

----------------------------------------------------------------------------
\* Matrix.resize_(num_rows, num_cols, resize_type, stride_type).
Matrix_resize_(hs, hp, self, num_rows, num_cols, resize_type, stride_type) ==
  IF hs[self].own_data
  THEN {Ok(Relink([hs EXCEPT ![self] = r.h], self, hs[self]), r.heap, "None", 0,
           "Resize") :
          r \in MatrixResize(hp, hs[self], num_rows, num_cols, resize_type,
                             stride_type)}
  ELSE {Raise(hs, hp, "ValueError", "own_data")}

\* Matrix.__init__(num_rows, num_cols): an owning matrix; Matrix() is empty.
Matrix_init(hs, hp, num_rows, num_cols) ==
  LET self == Len(hs) + 1
      hs1 == Append(hs, MatHandle(TRUE, 0, 0, 0, 0, 0, "init", 0, NoPm))
  IN IF ~IsNone(num_rows) \/ ~IsNone(num_cols)
     THEN IF IsNone(num_rows) \/ IsNone(num_cols)
          THEN {Raise(hs, hp, "ValueError", "together")}
          ELSE IF ~(IsInt(num_rows) /\ IsInt(num_cols))
          THEN {Raise(hs, hp, "TypeError", "integers")}
          ELSE IF ~(num_rows.v > 0 /\ num_cols.v > 0)
                  /\ ~(num_rows.v = 0 /\ num_cols.v = 0)
          THEN {Raise(hs, hp, "TypeError", "positive")}
          ELSE {[o EXCEPT !.rk = "Matrix", !.res = self] :
                  o \in Matrix_resize_(hs1, hp, self, num_rows.v, num_cols.v,
                                       "UNDEFINED", "DEFAULT")}
     ELSE {Ok(hs1, hp, "Matrix", self, "")}

\* Matrix.new(obj, row_start, col_start, num_rows, num_cols).  obj: a Matrix
\* handle, an array or a sequence.  The message of the col_start error
\* formats the name col_offset, which is bound nowhere: evaluating it raises
\* NameError.  SubMatrix.__init__ makes the new matrix over obj's memory.
Matrix_new(hs, hp, obj, row_start, col_start, num_rows, num_cols) ==
  UNION {
    IF obj.t # "handle" /\ c.a.nd # 2
    THEN {Raise(hs, hp, "ValueError", "ndim")}
    ELSE
      LET obj_rows == c.a.nr
          obj_cols == c.a.nc
      IN IF ~StartInRange(row_start.v, obj_rows)
         THEN {Raise(hs, hp, "IndexError", "row_start")}
         ELSE IF ~StartInRange(col_start.v, obj_cols)
         THEN {Raise(hs, hp, "NameError", "col_offset")}
         ELSE
           LET max_rows == obj_rows - row_start.v
               max_cols == obj_cols - col_start.v
               rows == IF IsNone(num_rows) THEN max_rows ELSE num_rows.v
               cols == IF IsNone(num_cols) THEN max_cols ELSE num_cols.v
           IN IF ~LengthInRange(rows, max_rows)
              THEN {Raise(hs, hp, "IndexError", "num_rows")}
              ELSE IF ~LengthInRange(cols, max_cols)
              THEN {Raise(hs, hp, "IndexError", "num_cols")}
              ELSE
                LET stride == IF obj.t = "handle" THEN c.a.sr ELSE c.a.nc
                    off == c.a.off + row_start.v * stride + col_start.v
                    instance ==
                      IF obj.t = "handle"
                      THEN MatHandle(NewOwnData, c.a.st, off, rows, cols, stride, "new",
                                     obj.k, Compose(IdPm, row_start.v, col_start.v))
                      ELSE IF obj.t = "ndarray"
                      THEN MatHandle(NewOwnData, c.a.st, off, rows, cols, stride, obj.via,
                                     obj.par,
                                     Compose(obj.pm, row_start.v, col_start.v))
                      ELSE MatHandle(NewOwnData, c.a.st, off, rows, cols, stride, "new",
                                     0, NoPm)
                IN {Ok(Append(hs, instance), c.heap, "Matrix", Len(hs) + 1,
                       "SubMatrix")}
    : c \in Converted(hs, hp, obj)}

\* Matrix.clone(): a new owning matrix with a copy of the elements.
Matrix_clone(hs, hp, self) ==
  UNION {IF o.err # "ok" THEN {o}
         ELSE {Ok([o.hs EXCEPT ![o.res].via = "clone"], q, "Matrix", o.res,
                  "CopyFromMat") :
                 q \in NativeCopy(o.hp, o.hs[o.res], o.hs[self])}
         : o \in Matrix_init(hs, hp, PyInt(hs[self].nr), PyInt(hs[self].nc))}

\* Matrix.range handing its arguments to Matrix.new in its own order.
Matrix_range_SameOrder(hs, hp, self, row_start, num_rows, col_start, num_cols) ==
  Matrix_new(hs, hp, SrcHandle(self), row_start, num_rows, col_start, num_cols)

\* Matrix.range(row_start, num_rows, col_start, num_cols).
Matrix_range(hs, hp, self, row_start, num_rows, col_start, num_cols) ==
  Matrix_new(hs, hp, SrcHandle(self), row_start, col_start, num_rows, num_cols)

\* Matrix.transpose_().  Transpose of a matrix with rows but no columns (or
\* columns but no rows) fails in the native resize.
Matrix_transpose_(hs, hp, self) ==
  IF hs[self].own_data
  THEN IF hs[self].nr # hs[self].nc /\ hs[self].nr * hs[self].nc = 0
       THEN {Raise(hs, hp, "RuntimeError", "Transpose")}
       ELSE {Ok(Relink([hs EXCEPT ![self] = r.h], self, hs[self]), r.heap, "None",
                0, "Transpose") :
               r \in MatrixTranspose(hp, hs[self])}
  ELSE {Raise(hs, hp, "ValueError", "own_data")}

\* Matrix.__getitem__(index), index a tuple of items: numpy indexes the
\* matrix's array (an IndexError of numpy passes through).  An array result
\* of 2 dimensions goes to Matrix.new and one of 1 dimension to Vector.new;
\* for an array of any other number of dimensions neither branch is taken
\* and the method ends without a return statement: it returns None.  A
\* numpy.float32 (the result of two integers) becomes a float.  The last
\* branch, TypeError for a result that is neither, is taken for no index of
\* the kinds above.
Matrix_getitem(hs, hp, self, index) ==
  UNION {
    IF ~ret.ok THEN {Raise(hs, hp, "IndexError", "index")}
    ELSE IF ret.a.nd = 0
    THEN {Ok(hs, hp, "float", v, "getitem") :
            v \in Load(hp, ret.a.st, ret.a.off)}
    ELSE IF ret.a.nd = 2
    THEN Matrix_new(hs, hp, SrcArray(ret.a, self, ret.pm, "getitem"),
                    PyInt(0), PyInt(0), PyNone, PyNone)
    ELSE IF ret.a.nd = 1
    THEN Vector_new(hs, hp, SrcArray(ret.a, self, ret.pm, "getitem"),
                    PyInt(0), PyNone)
    ELSE {Ok(hs, hp, "None", 0, "")}
    : ret \in {NdGetItem(numpy(hs[self]), index)}}

\* Matrix.__setitem__(index, value) for a pair of items and a scalar value.
Matrix_setitem(hs, hp, self, index, value) ==
  IF ~(Axis(index[1], hs[self].nr).ok /\ Axis(index[2], hs[self].nc).ok)
  THEN {Raise(hs, hp, "IndexError", "index")}
  ELSE {Ok(hs, q, "None", 0, "setitem") :
          q \in Store(hp, hs[self].st,
                      [a \in SetCells2(numpy(hs[self]), index[1], index[2]) |->
                         ToFloat32(value)])}

\* Matrix.__delitem__(index).
Matrix_delitem(hs, hp, self, index) ==
  IF hs[self].own_data
  THEN IF 0 <= index /\ index < hs[self].nr
       THEN {Ok(Relink([hs EXCEPT ![self] = r.h], self, hs[self]), r.heap,
                "None", 0, "RemoveRow") :
               r \in MatrixRemoveRow(hp, hs[self], index)}
       ELSE {Raise(hs, hp, "IndexError", "index")}
  ELSE {Raise(hs, hp, "ValueError", "own_data")}

----------------------------------------------------------------------------
\* The program: a sequence of calls on the vectors and matrices made so far.
NoCall ==
  [op |-> "", self |-> 0, other |-> 0, err |-> "", what |-> "", rk |-> "",
   res |-> 0, native |-> ""]

Init ==
  /\ handles = <<>>
  /\ heap = <<>>
  /\ last = NoCall
  /\ args = <<>>
  /\ steps = 0

\* One call: its outcome becomes the state, and the call is recorded.
Call(bound, op, self, other, a, outs) ==
  /\ steps < bound
  /\ \E o \in outs :
       /\ handles' = o.hs
       /\ heap' = o.hp
       /\ last' = [op |-> op, self |-> self, other |-> other, err |-> o.err,
                   what |-> o.what, rk |-> o.rk, res |-> o.res,
                   native |-> o.native]
  /\ args' = a
  /\ steps' = steps + 1

Vectors == {k \in DOMAIN handles : handles[k].kind = "Vector"}
Matrices == {k \in DOMAIN handles : handles[k].kind = "Matrix"}

\* The argument values the calls are tried with.
Lengths == 0..MaxLen
MatShapes == {<<0, 0>>} \cup ((1..MaxRows) \X (1..MaxCols))
ResizeTypes == {"SET_ZERO", "UNDEFINED"}
StrideTypes == {"DEFAULT", "STRIDE_EQUAL_NUM_COLS"}
Slices ==
  {SliceIx(PyNone, PyNone, PyNone), SliceIx(PyInt(1), PyNone, PyNone),
   SliceIx(PyNone, PyNone, PyInt(2)), SliceIx(PyNone, PyNone, PyInt(-1))}
Items(n) == {IntIx(i) : i \in 0..(n - 1)} \cup Slices

DoVectorInit ==
  /\ steps < MaxSteps
  /\ \E n \in Lengths :
     Call(MaxSteps, "Vector", 0, 0, <<PyInt(n)>>,
          Vector_init(handles, heap, PyInt(n)))

DoMatrixInit ==
  /\ steps < MaxSteps
  /\ \E sh \in MatShapes :
     Call(MaxSteps, "Matrix", 0, 0, <<PyInt(sh[1]), PyInt(sh[2])>>,
          Matrix_init(handles, heap, PyInt(sh[1]), PyInt(sh[2])))

DoVectorNew ==
  /\ steps < MaxSteps
  /\ \E k \in Vectors : \E s \in 0..handles[k].nc :
     \E l \in {PyNone} \cup {PyInt(n) : n \in 0..(handles[k].nc - s)} :
        Call(MaxSteps, "Vector.new", k, 0, <<SrcHandle(k), PyInt(s), l>>,
             Vector_new(handles, heap, SrcHandle(k), PyInt(s), l))

DoMatrixNew ==
  /\ steps < MaxSteps
  /\ \E k \in Matrices : \E rs \in 0..handles[k].nr, cs \in 0..handles[k].nc :
     \E nr \in 0..(handles[k].nr - rs), nc \in 0..(handles[k].nc - cs) :
        Call(MaxSteps, "Matrix.new", k, 0,
             <<SrcHandle(k), PyInt(rs), PyInt(cs), PyInt(nr), PyInt(nc)>>,
             Matrix_new(handles, heap, SrcHandle(k), PyInt(rs), PyInt(cs),
                        PyInt(nr), PyInt(nc)))

DoClone ==
  /\ steps < MaxSteps
  /\ \E k \in DOMAIN handles :
     Call(MaxSteps, "clone", k, 0, <<>>,
          IF handles[k].kind = "Vector" THEN Vector_clone(handles, heap, k)
          ELSE Matrix_clone(handles, heap, k))

DoCopy ==
  /\ steps < MaxSteps
  /\ \E k \in DOMAIN handles : \E src \in DOMAIN handles :
     /\ handles[src].kind = handles[k].kind
     /\ Call(MaxSteps, "copy_", k, src, <<>>, copy_(handles, heap, k, src))

DoVectorResize ==
  /\ steps < MaxSteps
  /\ \E k \in Vectors : \E n \in Lengths, rt \in ResizeTypes :
     Call(MaxSteps, "resize_", k, 0, <<n, rt>>,
          Vector_resize_(handles, heap, k, n, rt))

DoMatrixResize ==
  /\ steps < MaxSteps
  /\ \E k \in Matrices : \E sh \in MatShapes, rt \in {"SET_ZERO"}, st \in StrideTypes :
     Call(MaxSteps, "resize_", k, 0, <<sh[1], sh[2], rt, st>>,
          Matrix_resize_(handles, heap, k, sh[1], sh[2], rt, st))

DoSwap ==
  /\ steps < MaxSteps
  /\ \E k \in DOMAIN handles : \E other \in DOMAIN handles :
     /\ handles[other].kind = handles[k].kind
     /\ Call(MaxSteps, "swap_", k, other, <<>>, swap_(handles, heap, k, other))

DoTranspose ==
  /\ steps < MaxSteps
  /\ \E k \in Matrices :
     Call(MaxSteps, "transpose_", k, 0, <<>>, Matrix_transpose_(handles, heap, k))

DoVectorGetItem ==
  /\ steps < MaxSteps
  /\ \E k \in Vectors : \E ix \in Items(handles[k].nc) :
     Call(MaxSteps, "getitem", k, 0, <<ix>>, Vector_getitem(handles, heap, k, ix))

DoMatrixGetItem ==
  /\ steps < MaxSteps
  /\ \E k \in Matrices : \E r \in Items(handles[k].nr), c \in Items(handles[k].nc) :
     Call(MaxSteps, "getitem", k, 0, <<<<r, c>>>>,
          Matrix_getitem(handles, heap, k, <<r, c>>))

DoVectorSetItem ==
  /\ steps < MaxSteps
  /\ \E k \in Vectors : \E i \in 0..(handles[k].nc - 1), v \in Vals :
     Call(MaxSteps, "setitem", k, 0, <<0, i, v>>,
          Vector_setitem(handles, heap, k, IntIx(i), v))

DoMatrixSetItem ==
  /\ steps < MaxSteps
  /\ \E k \in Matrices :
     \E i \in 0..(handles[k].nr - 1), j \in 0..(handles[k].nc - 1), v \in Vals :
        Call(MaxSteps, "setitem", k, 0, <<i, j, v>>,
             Matrix_setitem(handles, heap, k, <<IntIx(i), IntIx(j)>>, v))

DoVectorDelItem ==
  /\ steps < MaxSteps
  /\ \E k \in Vectors : \E i \in 0..handles[k].nc :
     Call(MaxSteps, "delitem", k, 0, <<i>>, Vector_delitem(handles, heap, k, i))

DoMatrixDelItem ==
  /\ steps < MaxSteps
  /\ \E k \in Matrices : \E i \in 0..handles[k].nr :
     Call(MaxSteps, "delitem", k, 0, <<i>>, Matrix_delitem(handles, heap, k, i))

Next ==
  \/ DoVectorInit
  \/ DoMatrixInit
  \/ DoVectorNew
  \/ DoMatrixNew
  \/ DoClone
  \/ DoCopy
  \/ DoVectorResize
  \/ DoMatrixResize
  \/ DoSwap
  \/ DoTranspose
  \/ DoVectorGetItem
  \/ DoMatrixGetItem
  \/ DoVectorSetItem
  \/ DoMatrixSetItem
  \/ DoVectorDelItem
  \/ DoMatrixDelItem

Spec == Init /\ [][Next]_vars

----------------------------------------------------------------------------
\* The argument checks: one call of a constructor, new or range with every
\* kind of argument, valid or not, on a vector or a matrix the constructor
\* has made, or on a Python sequence.
MaxArgSteps == 1
MaxSeqLen == 2

\* Numbers a Python sequence may hold; the last is not a float32.
SeqVals == {0, 1, Float32Exact + 1}

\* A number (0-D), the lists of up to MaxSeqLen numbers, the lists of lists
\* of up to MaxRows by MaxCols numbers.
Sequences0 == {SrcSequence(0, 1, 1, <<v>>) : v \in SeqVals}
Sequences1 ==
  UNION {{SrcSequence(1, 1, n, vals) : vals \in [1..n -> SeqVals]} :
           n \in 0..MaxSeqLen}
Sequences2 ==
  {SrcSequence(2, sh[1], sh[2], [k \in 1..(sh[1] * sh[2]) |-> k % 2]) :
     sh \in (1..MaxRows) \X (1..MaxCols)}

\* len(obj) and the shape of obj as new sees them.
ObjLen(hs, obj) == IF obj.t = "handle" THEN hs[obj.k].nc ELSE obj.nc
ObjRows(hs, obj) == IF obj.t = "handle" THEN hs[obj.k].nr ELSE obj.nr
ObjNd(hs, obj) ==
  IF obj.t = "handle" THEN (IF hs[obj.k].kind = "Vector" THEN 1 ELSE 2)
  ELSE obj.nd

\* The states the calls start from: one owning vector or one owning matrix,
\* as its constructor leaves it.
InitArgs ==
  /\ \E o \in UNION {Vector_init(<<>>, <<>>, PyInt(n)) : n \in 0..MaxSeqLen}
                \cup UNION {Matrix_init(<<>>, <<>>, PyInt(sh[1]), PyInt(sh[2])) :
                              sh \in MatShapes} :
       /\ handles = o.hs
       /\ heap = o.hp
  /\ last = NoCall
  /\ args = <<>>
  /\ steps = 0

IntArgs(n) == {PyInt(i) : i \in (-1)..(n + 1)}
Dims == {PyNone, PyFloat(1)} \cup {PyInt(i) : i \in (-1)..MaxRows}

CallVectorInit ==
  /\ steps < MaxArgSteps
  /\ \E length \in {PyNone, PyFloat(1)} \cup IntArgs(MaxSeqLen) :
     Call(MaxArgSteps, "Vector", 0, 0, <<length>>,
          Vector_init(handles, heap, length))

CallMatrixInit ==
  /\ steps < MaxArgSteps
  /\ \E num_rows \in Dims, num_cols \in Dims :
     Call(MaxArgSteps, "Matrix", 0, 0, <<num_rows, num_cols>>,
          Matrix_init(handles, heap, num_rows, num_cols))

CallVectorNew ==
  /\ steps < MaxArgSteps
  /\ \E obj \in {SrcHandle(k) : k \in Vectors}
                  \cup Sequences0 \cup Sequences1 \cup Sequences2 :
     \E start \in IntArgs(ObjLen(handles, obj)) :
     \E length \in {PyNone} \cup IntArgs(ObjLen(handles, obj)) :
        Call(MaxArgSteps, "Vector.new",
             IF obj.t = "handle" THEN obj.k ELSE 0, 0, <<obj, start, length>>,
             Vector_new(handles, heap, obj, start, length))

CallMatrixNew ==
  /\ steps < MaxArgSteps
  /\ \E obj \in {SrcHandle(k) : k \in Matrices}
                  \cup Sequences0 \cup Sequences1 \cup Sequences2 :
     \E row_start \in IntArgs(ObjRows(handles, obj)),
        col_start \in IntArgs(ObjLen(handles, obj)) :
     \E num_rows \in {PyNone} \cup IntArgs(ObjRows(handles, obj)),
        num_cols \in {PyNone} \cup IntArgs(ObjLen(handles, obj)) :
        Call(MaxArgSteps, "Matrix.new",
             IF obj.t = "handle" THEN obj.k ELSE 0, 0,
             <<obj, row_start, col_start, num_rows, num_cols>>,
             Matrix_new(handles, heap, obj, row_start, col_start, num_rows,
                        num_cols))

CallVectorRange ==
  /\ steps < MaxArgSteps
  /\ \E k \in Vectors :
     \E start \in IntArgs(handles[k].nc) :
     \E length \in {PyNone} \cup IntArgs(handles[k].nc) :
        Call(MaxArgSteps, "Vector.range", k, 0, <<start, length>>,
             Vector_range(handles, heap, k, start, length))

CallMatrixRange ==
  /\ steps < MaxArgSteps
  /\ \E k \in Matrices :
     \E row_start \in IntArgs(handles[k].nr),
        col_start \in IntArgs(handles[k].nc) :
     \E num_rows \in {PyNone} \cup IntArgs(handles[k].nr),
        num_cols \in {PyNone} \cup IntArgs(handles[k].nc) :
        Call(MaxArgSteps, "Matrix.range", k, 0,
             <<row_start, num_rows, col_start, num_cols>>,
             Matrix_range(handles, heap, k, row_start, num_rows, col_start,
                          num_cols))

\* Indices of every pattern: integers in and out of range, slices, None, an
\* index of another type, and for a matrix the tuples of up to three items
\* with at most one None.
AnyItems(n) == {IntIx(i) : i \in (-1)..n} \cup Slices
Tuples(n, m) ==
  {<<x>> : x \in AnyItems(n) \cup {NewAxisIx, OtherIx}}
    \cup {<<r, c>> : r \in AnyItems(n) \cup {OtherIx}, c \in AnyItems(m) \cup {OtherIx}}
    \cup {<<NewAxisIx, x>> : x \in AnyItems(n)}
    \cup {<<x, NewAxisIx>> : x \in AnyItems(n)}
    \cup {<<NewAxisIx, r, c>> : r \in AnyItems(n), c \in AnyItems(m)}
    \cup {<<r, NewAxisIx, c>> : r \in AnyItems(n), c \in AnyItems(m)}
    \cup {<<r, c, NewAxisIx>> : r \in AnyItems(n), c \in AnyItems(m)}
    \cup {<<r, c, IntIx(0)>> : r \in AnyItems(n), c \in AnyItems(m)}

CallVectorGetItem ==
  /\ steps < MaxArgSteps
  /\ \E k \in Vectors :
     \E index \in AnyItems(handles[k].nc) \cup {NewAxisIx, OtherIx} :
        Call(MaxArgSteps, "getitem", k, 0, <<index>>,
             Vector_getitem(handles, heap, k, index))

CallMatrixGetItem ==
  /\ steps < MaxArgSteps
  /\ \E k \in Matrices : \E index \in Tuples(handles[k].nr, handles[k].nc) :
        Call(MaxArgSteps, "getitem", k, 0, <<index>>,
             Matrix_getitem(handles, heap, k, index))

NextArgs ==
  \/ CallVectorGetItem
  \/ CallMatrixGetItem
  \/ CallVectorInit
  \/ CallMatrixInit
  \/ CallVectorNew
  \/ CallMatrixNew
  \/ CallVectorRange
  \/ CallMatrixRange

SpecArgs == InitArgs /\ [][NextArgs]_vars

----------------------------------------------------------------------------
\* The owner-only operations.
Structural == {"resize_", "transpose_", "delitem"}

\* C1: resize_, transpose_ and __delitem__ called on a vector or matrix that
\* does not own its data raise the ownership error (ValueError), invoke no
\* native operation, and leave every handle (shape, own_data, storage) and
\* the whole heap as they were.
C1_OwnershipGate ==
  [][(last'.op \in Structural /\ ~handles[last'.self].own_data)
       => /\ last'.err = "ValueError"
          /\ last'.what = "own_data"
          /\ last'.native = ""
          /\ handles' = handles
          /\ heap' = heap]_vars

\* A structural operation was refused on a non-owning vector and on a
\* non-owning matrix that is not empty.
C1_Witness ==
  /\ last.op = "delitem"
  /\ last.err = "ValueError"
  /\ ~handles[last.self].own_data
  /\ handles[last.self].kind = "Vector"
  /\ handles[last.self].nc > 0
  /\ handles[last.self].via = "new"

\* What a handle refers to: its block, offset, shape and stride.
Place(h) == <<h.st, h.off, h.nr, h.nc, h.stride>>

\* C2: swap_(A, B) exchanges storage and shape exactly when A and B both own
\* their data: then A has B's former block, shape and contents and B has A's,
\* both still own, and no element is moved; when either does not own, the
\* call raises the ownership error (ValueError) and nothing changes.
C2_SwapBothOwn ==
  [][last'.op = "swap_"
       => LET a == last'.self
              b == last'.other
          IN IF handles[a].own_data /\ handles[b].own_data
             THEN /\ last'.err = "ok"
                  /\ Place(handles'[a]) = Place(handles[b])
                  /\ Place(handles'[b]) = Place(handles[a])
                  /\ Contents(heap', handles'[a]) = Contents(heap, handles[b])
                  /\ Contents(heap', handles'[b]) = Contents(heap, handles[a])
                  /\ handles'[a].own_data /\ handles'[b].own_data
                  /\ heap' = heap
             ELSE /\ last'.err = "ValueError"
                  /\ last'.native = ""
                  /\ handles' = handles
                  /\ heap' = heap]_vars

\* Two owning handles of different contents were swapped.
C2_Witness ==
  /\ last.op = "swap_"
  /\ last.err = "ok"
  /\ last.self # last.other
  /\ Shape(handles[last.self]) # Shape(handles[last.other])
  /\ handles[last.self].nc > 0
  /\ handles[last.other].nc > 0

\* The calls that return an owning handle, and those that return a view.
Constructors == {"Vector", "Matrix", "clone"}
ViewMakers == {"Vector.new", "Matrix.new", "Vector.range", "Matrix.range", "getitem"}

\* C5: a handle returned by new, range or a slice __getitem__ does not own
\* its data, whether or not the source was copied, and no later call makes it
\* own its data or changes its shape; a handle made by the constructor or by
\* clone owns its data and no call ends that.
C5_OwnershipFixed ==
  [][\A k \in DOMAIN handles' :
        IF k \in DOMAIN handles
        THEN /\ handles'[k].own_data = handles[k].own_data
             /\ ~handles[k].own_data => Shape(handles'[k]) = Shape(handles[k])
        ELSE /\ last'.op \in Constructors \cup ViewMakers
             /\ handles'[k].own_data = (last'.op \in Constructors)]_vars

\* A slice that had to copy (its block is not its parent's) was made, and a
\* structural operation on it was refused.
C5_Witness ==
  /\ last.op \in Structural
  /\ last.err = "ValueError"
  /\ handles[last.self].via = "getitem"
  /\ handles[last.self].par # 0
  /\ handles[last.self].st # handles[handles[last.self].par].st
  /\ handles[last.self].nc > 1

\* Handle k is a vector made by slicing a vector that owns its data and has
\* not been resized, swapped or shortened since.
IsVectorSlice(k) ==
  /\ handles[k].kind = "Vector"
  /\ handles[k].via = "getitem"
  /\ handles[k].par # 0
  /\ handles[handles[k].par].kind = "Vector"
  /\ handles[handles[k].par].own_data

\* The contents of H after the element (r, c) alone is set to v.
WithElement(hp, h, r, c, v) ==
  [i \in 0..(h.nr - 1) |->
     [j \in 0..(h.nc - 1) |->
        IF i = r /\ j = c THEN v ELSE Cell(hp, h.st, Addr(h, i, j))]]

\* C3 as stated: an element written through V = H[R] shows in H, at the
\* corresponding offset, exactly when the slice's step is 1; with any other
\* step H is left as it was.
C3_StrideOneIff ==
  [][(last'.op = "setitem" /\ last'.err = "ok" /\ IsVectorSlice(last'.self))
       => LET V == handles[last'.self]
              H == handles[V.par]
              pos == V.pm.c0 + V.pm.cj * args'[2]
          IN IF V.pm.cj = 1
             THEN Contents(heap', H) = WithElement(heap, H, 0, pos, args'[3])
             ELSE Contents(heap', H) = Contents(heap, H)]_vars

\* C3, amended: an element written through V = H[R] shows in H, at the
\* corresponding offset, exactly when the slice is contiguous, that is when
\* its step is 1 or it selects a single element; a slice of two or more
\* elements with another step is a copy, and H is left as it was.
C3_ContiguousIff ==
  [][(last'.op = "setitem" /\ last'.err = "ok" /\ IsVectorSlice(last'.self))
       => LET V == handles[last'.self]
              H == handles[V.par]
              pos == V.pm.c0 + V.pm.cj * args'[2]
          IN IF V.pm.cj = 1 \/ V.nc = 1
             THEN Contents(heap', H) = WithElement(heap, H, 0, pos, args'[3])
             ELSE Contents(heap', H) = Contents(heap, H)]_vars

\* An element was written through a slice with step 1 that starts after the
\* first element of its owning parent, and the parent holds it.
C3_Witness ==
  /\ last.op = "setitem"
  /\ last.err = "ok"
  /\ IsVectorSlice(last.self)
  /\ handles[last.self].pm.cj = 1
  /\ handles[last.self].pm.c0 = 1
  /\ args[3] = 1
  /\ LET H == handles[handles[last.self].par]
     IN Cell(heap, H.st, Addr(H, 0, 1 + args[2])) = 1

\* Handle k is a matrix made by indexing, with two ranges, a matrix that
\* owns its data and has not been resized, swapped, transposed or shortened
\* since.
IsMatrixSlice(k) ==
  /\ handles[k].kind = "Matrix"
  /\ handles[k].via = "getitem"
  /\ handles[k].par # 0
  /\ handles[handles[k].par].kind = "Matrix"
  /\ handles[handles[k].par].own_data

\* C4, for a range it names: when S = M[rows, cols] takes every row in order
\* and a proper sub-range of the columns with step 1 (as M[:, 1:3] does), an
\* element written through S shows in M at the corresponding position.
C4_ColumnStrideOneShares ==
  [][(last'.op = "setitem" /\ last'.err = "ok" /\ IsMatrixSlice(last'.self))
       => LET S == handles[last'.self]
              M == handles[S.par]
              r == S.pm.r0 + S.pm.ri * args'[1]
              c == S.pm.c0 + S.pm.cj * args'[2]
          IN (S.pm.cj = 1 /\ S.pm.ri = 1 /\ S.nc < M.nc)
               => Contents(heap', M) = WithElement(heap, M, r, c, args'[3])]_vars

\* C6, its first part: H.clone() succeeds for every handle H, of any shape,
\* and returns an owning handle with H's shape and contents.
C6_CloneAlways ==
  [][last'.op = "clone"
       => /\ last'.err = "ok"
          /\ handles'[last'.res].own_data
          /\ Shape(handles'[last'.res]) = Shape(handles[last'.self])
          /\ Contents(heap', handles'[last'.res]) = Contents(heap, handles[last'.self])]_vars

----------------------------------------------------------------------------
\* The bounds of new: a start or a length outside them.
StartBad(s, n) == s < 0 \/ s > n
LengthBad(l, s, n) == ~IsNone(l) /\ (l.v < 0 \/ l.v > n - s)

\* C7: Vector.new(obj, start=s, length=l) on a vector or a 1-D sequence
\* raises IndexError exactly when s < 0 or s > len(obj) or l < 0 or
\* l > len(obj) - s, and then makes no handle and changes nothing; with any
\* other integers (s = len(obj) with l = 0 among them) it returns a new
\* handle; when the start is out of range the error is the one about start,
\* whatever the length.
C7_VectorNewBounds ==
  [][(last'.op = "Vector.new" /\ ObjNd(handles, args'[1]) = 1)
       => LET n == ObjLen(handles, args'[1])
              s == args'[2].v
              l == args'[3]
              bad == StartBad(s, n) \/ LengthBad(l, s, n)
          IN /\ (last'.err = "IndexError") <=> bad
             /\ bad => (handles' = handles /\ heap' = heap)
             /\ ~bad => (last'.err = "ok" /\ Len(handles') = Len(handles) + 1
                           /\ last'.rk = "Vector")
             /\ StartBad(s, n) => last'.what = "start"
             /\ (~StartBad(s, n) /\ bad) => last'.what = "length"]_vars

\* A call with start and length both out of range has reported the start.
C7_Witness ==
  /\ last.op = "Vector.new"
  /\ last.err = "IndexError"
  /\ last.what = "start"
  /\ args[1].t = "sequence"
  /\ args[2].v > args[1].nc
  /\ args[3] = PyInt(-1)

\* C8: Matrix.new on a matrix or a 2-D sequence raises IndexError whenever
\* row_start, col_start, num_rows or num_cols is out of its range, and
\* succeeds with all other integer arguments.
C8_MatrixNewBounds ==
  [][(last'.op = "Matrix.new" /\ ObjNd(handles, args'[1]) = 2)
       => LET obj_rows == ObjRows(handles, args'[1])
              obj_cols == ObjLen(handles, args'[1])
              bad == \/ StartBad(args'[2].v, obj_rows)
                     \/ StartBad(args'[3].v, obj_cols)
                     \/ LengthBad(args'[4], args'[2].v, obj_rows)
                     \/ LengthBad(args'[5], args'[3].v, obj_cols)
          IN IF bad THEN last'.err = "IndexError" ELSE last'.err = "ok"]_vars

\* C9: Matrix(num_rows, num_cols) returns an owning matrix of that shape
\* exactly when both arguments are integers, both zero or both positive, and
\* raises ValueError for any other arguments (one of them None included);
\* Vector(length) raises ValueError for a negative or non-integer length.
C9_ConstructionErrors ==
  [][/\ (last'.op = "Matrix" /\ (~IsNone(args'[1]) \/ ~IsNone(args'[2])))
          => LET r == args'[1]
                 c == args'[2]
                 valid == /\ IsInt(r) /\ IsInt(c)
                          /\ ((r.v = 0 /\ c.v = 0) \/ (r.v > 0 /\ c.v > 0))
             IN IF valid
                THEN /\ last'.err = "ok"
                     /\ handles'[last'.res].own_data
                     /\ Shape(handles'[last'.res]) = <<r.v, c.v>>
                ELSE last'.err = "ValueError"
     /\ (last'.op = "Vector" /\ ~IsNone(args'[1]))
          => IF IsInt(args'[1]) /\ args'[1].v >= 0
             THEN last'.err = "ok"
             ELSE last'.err = "ValueError"]_vars

\* obj[k] as Python reads it, and the length a call of new asks for.
SourceElement(hs, hp, obj, k) ==
  IF obj.t = "handle" THEN Cell(hp, hs[obj.k].st, Addr(hs[obj.k], 0, k))
  ELSE obj.vals[k + 1]
Asked(l, s, n) == IF IsNone(l) THEN n - s ELSE l.v

\* What C10 says of the shapes: the vector made by a successful Vector.new
\* has length l, or len(obj) - s when no length is given; the matrix made by
\* a successful Matrix.new has num_rows by num_cols elements, each defaulting
\* to what remains after its start; a source of the wrong dimensionality is
\* refused with ValueError.
NewShapes ==
  /\ (last'.op = "Vector.new" /\ last'.err = "ok")
       => Shape(handles'[last'.res])
            = <<Asked(args'[3], args'[2].v, ObjLen(handles, args'[1]))>>
  /\ (last'.op = "Matrix.new" /\ last'.err = "ok")
       => Shape(handles'[last'.res])
            = <<Asked(args'[4], args'[2].v, ObjRows(handles, args'[1])),
                Asked(args'[5], args'[3].v, ObjLen(handles, args'[1]))>>
  /\ (last'.op = "Vector.new" /\ ObjNd(handles, args'[1]) # 1)
       => last'.err = "ValueError"
  /\ (last'.op = "Matrix.new" /\ ObjNd(handles, args'[1]) # 2)
       => last'.err = "ValueError"

\* C10 as stated: the shapes, and element i of the vector made by
\* Vector.new(obj, s, l) is obj[s + i].
C10_NewElementsExact ==
  [][/\ NewShapes
     /\ (last'.op = "Vector.new" /\ last'.err = "ok")
          => LET V == handles'[last'.res]
             IN \A i \in 0..(V.nc - 1) :
                  Cell(heap', V.st, Addr(V, 0, i))
                    = SourceElement(handles, heap, args'[1], args'[2].v + i)]_vars

\* C10, amended: the shapes, and element i of the vector made by
\* Vector.new(obj, s, l) is obj[s + i] converted to float32.
C10_NewElementsFloat32 ==
  [][/\ NewShapes
     /\ (last'.op = "Vector.new" /\ last'.err = "ok")
          => LET V == handles'[last'.res]
             IN \A i \in 0..(V.nc - 1) :
                  Cell(heap', V.st, Addr(V, 0, i))
                    = ToFloat32(SourceElement(handles, heap, args'[1],
                                              args'[2].v + i))]_vars

\* A vector made from the second element on of a list whose second element
\* is not a float32.
C10_Witness ==
  /\ last.op = "Vector.new"
  /\ last.err = "ok"
  /\ args[1].t = "sequence"
  /\ args[1].nc = 2
  /\ args[1].vals[2] = Float32Exact + 1
  /\ args[2] = PyInt(1)
  /\ args[3] = PyNone
  /\ handles[last.res].nc = 1
  /\ Cell(heap, handles[last.res].st, Addr(handles[last.res], 0, 0)) = Float32Exact

----------------------------------------------------------------------------
\* C11: the kind of value an indexing call returns follows from the index
\* alone.  On a vector an integer (in range) gives a float, a slice gives a
\* Vector and an index of any other type raises TypeError.  On a matrix two
\* integers (in range) give a float, an integer and a slice give a Vector,
\* two slices give a Matrix, and a call with any index either raises or
\* returns a float, a Vector or a Matrix.
C11_ResultKinds ==
  [][(last'.op = "getitem")
       => LET H == handles[last'.self]
              index == args'[1]
          IN IF H.kind = "Vector"
             THEN /\ (index.t = "int" /\ 0 <= index.v /\ index.v < H.nc)
                       => (last'.err = "ok" /\ last'.rk = "float")
                  /\ index.t = "slice"
                       => (last'.err = "ok" /\ last'.rk = "Vector")
                  /\ index.t \notin {"int", "slice"}
                       => last'.err = "TypeError"
             ELSE /\ (Len(index) = 2 /\ last'.err = "ok"
                        /\ index[1].t \in {"int", "slice"}
                        /\ index[2].t \in {"int", "slice"})
                       => last'.rk =
                            (IF index[1].t = "int" /\ index[2].t = "int"
                             THEN "float"
                             ELSE IF index[1].t = "slice" /\ index[2].t = "slice"
                             THEN "Matrix"
                             ELSE "Vector")
                  /\ last'.err = "ok"
                       => last'.rk \in {"float", "Vector", "Matrix"}]_vars

----------------------------------------------------------------------------
\* C12: M.range(row_start, num_rows, col_start, num_cols) with a range inside
\* M returns a new non-owning matrix of num_rows by num_cols elements (what
\* remains after the start for a count of None) whose element [i, j] is the
\* very element [row_start + i, col_start + j] of M: rows stay rows, columns
\* stay columns, a start is never taken as a count.
C12_RangeOrder ==
  [][(last'.op = "Matrix.range"
        /\ ~StartBad(args'[1].v, handles[last'.self].nr)
        /\ ~StartBad(args'[3].v, handles[last'.self].nc)
        /\ ~LengthBad(args'[2], args'[1].v, handles[last'.self].nr)
        /\ ~LengthBad(args'[4], args'[3].v, handles[last'.self].nc))
       => LET M == handles[last'.self]
              V == handles'[last'.res]
          IN /\ last'.err = "ok"
             /\ last'.rk = "Matrix"
             /\ last'.res = Len(handles) + 1
             /\ ~V.own_data
             /\ Shape(V) = <<Asked(args'[2], args'[1].v, M.nr),
                             Asked(args'[4], args'[3].v, M.nc)>>
             /\ heap' = heap
             /\ V.st = M.st
             /\ \A i \in 0..(V.nr - 1), j \in 0..(V.nc - 1) :
                  Addr(V, i, j) = Addr(M, args'[1].v + i, args'[3].v + j)]_vars

\* The range of one row from row 1 and two columns from column 0 of a 2 by
\* 2 matrix has been taken.
C12_Witness ==
  /\ last.op = "Matrix.range"
  /\ last.err = "ok"
  /\ args = <<PyInt(1), PyInt(1), PyInt(0), PyInt(2)>>
  /\ Shape(handles[last.self]) = <<2, 2>>
  /\ Shape(handles[last.res]) = <<1, 2>>
  /\ Addr(handles[last.res], 0, 1) = Addr(handles[last.self], 1, 1)

----------------------------------------------------------------------------
\* The addresses of the elements of h in its block.
Cells(h) == {Addr(h, p[1], p[2]) : p \in Coords(h)}

\* C13: in every state, the storage of every non-owning vector or matrix
\* that has elements is live, and its elements lie among the elements of
\* every owning vector or matrix that has that storage now.
C13_ViewsLive ==
  \A k \in DOMAIN handles :
    (~handles[k].own_data /\ Cells(handles[k]) # {})
      => /\ heap[handles[k].st].live
         /\ \A o \in DOMAIN handles :
              (handles[o].own_data /\ handles[o].st = handles[k].st)
                => Cells(handles[k]) \subseteq Cells(handles[o])

============================================================================
